---- MODULE Spec2Model ----
(***************************************************************************)
(* The MCP server of server/index.js: the session table `transports`, the  *)
(* POST /mcp handler, handleSessionRequest (GET and DELETE /mcp) and the    *)
(* two callbacks the handler installs on every transport it creates.        *)
(* Requests are handled on one thread; a handler gives up control only at   *)
(* an `await`, so every action below is one synchronous run of the code.    *)
(* What transport.handleRequest does for the handler is taken in the step   *)
(* of the call when it touches none of the server's state (the answer to a  *)
(* POST or GET of a session) and as a step of its own when it does (the     *)
(* close() of a DELETE, which a transport may reach after an await).        *)
(***************************************************************************)
EXTENDS Integers, Sequences, FiniteSets, Bags, TLC

\* ---------------------------------------------------------------- bounds
\* Transports the POST handler may construct in one run of the server.
MaxTransports == 2
\* Requests that may be suspended at an await at the same time.
MaxInFlight == 2

\* The numbers given to adder are the integers of -MaxAbs..MaxAbs.
MaxAbs == 4
\* The variables of the expressions given to truth_table are the first
\* MaxLetters letters.
MaxLetters == 3
\* The files one directory of a scanned tree holds, at most.
MaxFiles == 11
\* The turns of the chat a run of the client goes through, at most.
MaxTurns == 2

\* ------------------------------------------------------------ value sets
\* The value of an absent header and of a field that was never assigned.
Undefined == "undefined"
\* `let transport;` before any branch assigned it.
NoTransport == 0
\* What transports[k] yields for a key k the table inherits from
\* Object.prototype: a function, which is truthy and has no handleRequest.
ObjectMember == -1

Transports == 1..MaxTransports
\* The values randomUUID can return (one per transport is enough).
UUID(n) == ToString(n)
UUIDs == {UUID(n) : n \in Transports}
\* Keys every object literal inherits from Object.prototype.
ProtoKeys == {"constructor"}
\* The values a client can put in the mcp-session-id header.
Headers == {Undefined} \cup UUIDs \cup ProtoKeys
\* The JSON-RPC bodies a POST can carry, by method.
Bodies == {"initialize", "tools/list", "tools/call"}
NoBody == "none"
Open == "open"

VARIABLES
    transports,   \* the session table: own keys -> transport
    tStatus,      \* per transport: how far its construction has come
    tSessionId,   \* per transport: transport.sessionId
    tClosedBy,    \* per transport: the trigger that invoked its onclose first
    inflight,     \* the bag of requests suspended at an await
    last,         \* the response written, or callback run, most recently
    tcall,        \* the tool call being served: the tool and what its external call does
    tpc,          \* whether a tool handler is running
    tresult,      \* what the caller of the last tool call received
    registry,     \* the tools registered with the server, in registration order
    startup,      \* how far the start of index.js has come
    targs,        \* the arguments of the tool call being served
    tsession,     \* the session id the tool call being served came with
    tfailed,      \* the session ids on which a tool call has failed
    disk,         \* the directory tree a file search scans
    frames,       \* the calls of scanDirectory that have not returned, outermost first
    results,      \* the results array of the file search being served
    chatHistory,  \* the client's chatHistory array
    cpc,          \* where the client's chatLoop stands
    question,     \* the line read at the prompt
    response,     \* the model's reply to the turn
    called,       \* the callTool requests the client sent in the turn
    asked         \* how often the client called the model in the turn

sessionVars == <<transports, tStatus, tSessionId, tClosedBy, inflight, last>>
registryVars == <<registry, startup>>
callVars == <<targs, tsession, tfailed>>
scanVars == <<disk, frames, results>>
clientVars == <<chatHistory, cpc, question, response, called, asked>>
toolVars == <<tcall, tpc, tresult, registryVars, callVars, scanVars, clientVars>>
vars == <<sessionVars, toolVars>>

\* A request suspended at an await: where it waits and its local variables.
Pending(pc, m, h, b, t) == [pc |-> pc, method |-> m, sid |-> h, body |-> b, t |-> t]
Suspend(r) == inflight (+) SetToBag({r})
Resume(r) == inflight (-) SetToBag({r})
Room == BagCardinality(inflight) < MaxInFlight

\* ------------------------------------------------------- pure operators
\* JavaScript truthiness of a header value.
Truthy(h) == h # Undefined

\* A lookup that yields the same transport whatever own key is asked for.
GetShared(tbl, k) ==
    IF k \in DOMAIN tbl THEN tbl[CHOOSE j \in DOMAIN tbl : \A i \in DOMAIN tbl : tbl[j] <= tbl[i]]
    ELSE IF k \in ProtoKeys THEN ObjectMember
    ELSE NoTransport

\* transports[k]: an own key, else a key inherited from Object.prototype,
\* else undefined (NoTransport).
Get(tbl, k) ==
    IF k \in DOMAIN tbl THEN tbl[k]
    ELSE IF k \in ProtoKeys THEN ObjectMember
    ELSE NoTransport

isInitializeRequest(b) == b = "initialize"

\* PostBranch with `else if (isInitializeRequest(req.body))`: the test that no
\* session id came with the request is left out.
PostBranchAnyInitialize(tbl, h, b) ==
    IF Truthy(h) /\ Get(tbl, h) # NoTransport THEN "existing"
    ELSE IF isInitializeRequest(b) THEN "handshake"
    ELSE "reject"

\* PostBranch with the handshake test first: an initialize body opens a new
\* session even when it carries the id of one in the table.
PostBranchHandshakeFirst(tbl, h, b) ==
    IF isInitializeRequest(b) THEN "handshake"
    ELSE IF Truthy(h) /\ Get(tbl, h) # NoTransport THEN "existing"
    ELSE "reject"

\* The three-way branch of the POST handler.
PostBranch(tbl, h, b) ==
    IF Truthy(h) /\ Get(tbl, h) # NoTransport THEN "existing"
    ELSE IF ~Truthy(h) /\ isInitializeRequest(b) THEN "handshake"
    ELSE "reject"

\* The guard of handleSessionRequest.
SessionBranch(tbl, h) ==
    IF ~Truthy(h) \/ Get(tbl, h) = NoTransport THEN "reject" ELSE "existing"

\* randomUUID: a version-4 UUID, taken never to repeat within one process.
randomUUID == UUIDs \ {tSessionId[t] : t \in Transports}

\* A generator that may return an id it returned before.
sessionIdGeneratorRepeats == UUIDs

sessionIdGenerator == randomUUID

\* The value drawn from the generator's possible values. UUIDs are
\* interchangeable for the code, so the first of them stands for any.
Drawn(S) == {UUID(n) : n \in {i \in Transports :
                 UUID(i) \in S /\ \A j \in 1..(i - 1) : UUID(j) \notin S}}

\* onsessioninitialized that stores nothing.
onsessioninitializedForgets(tbl, sid, t) == tbl

\* onsessioninitialized that replaces the table: transports = {[sid]: transport}.
onsessioninitializedReplaces(tbl, sid, t) == [k \in {sid} |-> t]

\* onsessioninitialized: transports[sid] = transport.
onsessioninitialized(tbl, sid, t) ==
    [k \in DOMAIN tbl \cup {sid} |-> IF k = sid THEN t ELSE tbl[k]]

\* onclose that leaves the entry in the table.
oncloseKeepsEntry(tbl, sid) == tbl

\* onclose that empties the table.
oncloseClearsTable(tbl, sid) == IF Truthy(sid) THEN <<>> ELSE tbl

\* transport.onclose: if (transport.sessionId) delete transports[transport.sessionId].
onclose(tbl, sid) ==
    IF Truthy(sid) THEN [k \in DOMAIN tbl \ {sid} |-> tbl[k]] ELSE tbl

\* ---------------------------------------------------------------- tools
\* registerTools of tools.js with 'adder' registered a second time, in the
\* place of define_word.
ToolNamesAdderTwice ==
    <<"print-menu", "news-by-topic", "adder", "twitter-X-post",
      "wikipedia-search", "github-repo-info", "movie-ratings",
      "local-file-search", "truth_table", "adder">>

\* The tools registerTools registers, in registration order.
ToolNames == <<"print-menu", "news-by-topic", "adder", "twitter-X-post",
               "wikipedia-search", "github-repo-info", "movie-ratings",
               "local-file-search", "truth_table", "define_word">>
Tools == {ToolNames[i] : i \in DOMAIN ToolNames}

\* The messages a failure can carry.
Messages == {"boom", "fetch failed", "ENOENT"}
\* What the external call of a handler does: it succeeds ("ok"), it answers
\* with a status that is not ok (for local-file-search: a path that is no
\* directory), it throws or rejects with a message ("rejected"), or a later
\* step on its result does (reading or parsing the body, reading a
\* sub-directory: "late").
External(kind, msg) == [kind |-> kind, msg |-> msg]
Failures == {External(k, m) : k \in {"rejected", "late"}, m \in Messages}
Externals == {External("ok", ""), External("notok", "")} \cup Failures
\* print-menu and adder make no external call; truth_table's is eval.
ExternalsOf(tool) ==
    IF tool \in {"print-menu", "adder"} THEN {External("ok", "")}
    ELSE IF tool = "truth_table"
         THEN {External("ok", "")} \cup {External("rejected", m) : m \in Messages}
    ELSE Externals

\* A text is the sequence of the pieces of its template string.
TextBlock(text) == [type |-> "text", text |-> text]
Contains(text, piece) == \E i \in DOMAIN text : text[i] = piece
\* How a handler's promise settles.
Return(content) == [kind |-> "return", content |-> content, message |-> ""]
Throw(msg) == [kind |-> "throw", content |-> <<>>, message |-> msg]
One(text) == Return(<<TextBlock(text)>>)

print_menu(ext) == One(<<"${header}", "${menuText}">>)

news_by_topic(ext) ==
    IF ext.kind = "ok"
    THEN One(<<"Top News for \"", "${topic}", "\":\n\n", "${formattedNews}">>)
    ELSE One(<<"Failed to retrieve news. Please try again later.">>)

adder(ext) ==
    One(<<"Result: The sum of ", "${a}", " and ", "${b}", " is ", "${a + b}", ".\n">>)

\* twitter.tool.js: createPost catches every failure of the tweet itself.
createPost(ext) ==
    IF ext.kind \in {"rejected", "late"}
    THEN One(<<"Error sending tweet: ", ext.msg>>)
    ELSE One(<<"Tweet sent successfully: ", "${tweet.data.id}">>)

twitter_X_post(ext) ==
    One(<<"Tweet created successfully: ">> \o createPost(ext).content[1].text \o <<"\n">>)

wikipedia_search(ext) ==
    CASE ext.kind = "ok" ->
            One(<<"${data.title}", "\n\n", "${data.extract}", "\n\n", "${hyperlink}">>)
      [] ext.kind = "notok" ->
            One(<<"Error: Failed to fetch Wikipedia summary for \"", "${query}", "\".\n">>)
      [] OTHER ->
            One(<<"An error occurred while trying to fetch Wikipedia data.">>)

github_repo_info(ext) ==
    IF ext.kind = "ok"
    THEN One(<<"Repository Name: ", "${data.full_name}", "${details}">>)
    ELSE One(<<"Failed to fetch repository info for ", "${owner}", "/", "${repo}">>)

movie_ratings(ext) ==
    IF ext.kind = "ok"
    THEN One(<<"${resultText}">>)
    ELSE One(<<"Failed to retrieve movie information. Please try again later.">>)

local_file_search(ext) ==
    CASE ext.kind = "ok" ->
            One(<<"File Search Results", "${resultText}">>)
      [] ext.kind = "notok" ->
            One(<<"Error: \"", "${directory}", "\" is not a valid directory.">>)
      [] ext.kind = "rejected" ->
            One(<<"Error: Directory \"", "${directory}", "\" not found or inaccessible.">>)
      [] OTHER ->
            One(<<"An error occurred during the file search: ", ext.msg>>)

\* truth_table with a catch that drops e.message.
truth_tableDropsMessage(ext) ==
    IF ext.kind = "ok"
    THEN One(<<"Truth Table:", "\n", "${header}", "${body}", "\n">>)
    ELSE One(<<"Error:", " Invalid boolean expression. ">>)

truth_table(ext) ==
    IF ext.kind = "ok"
    THEN One(<<"Truth Table:", "\n", "${header}", "${body}", "\n">>)
    ELSE One(<<"Error:", " Invalid boolean expression. ", ext.msg>>)

\* define_word has no try: a failure of fetch, of res.json() or of reading the
\* entry leaves the handler as a rejection.
define_word(ext) ==
    CASE ext.kind = "ok" ->
            Return(<<TextBlock(<<"Definition of ", "${word}", ": ", "${definition}">>),
                     TextBlock(<<"Example: ", "${example}">>)>>)
      [] ext.kind = "notok" ->
            One(<<"No definition found for \"", "${word}", "\".">>)
      [] OTHER -> Throw(ext.msg)

Handler(tool, ext) ==
    CASE tool = "print-menu" -> print_menu(ext)
      [] tool = "news-by-topic" -> news_by_topic(ext)
      [] tool = "adder" -> adder(ext)
      [] tool = "twitter-X-post" -> twitter_X_post(ext)
      [] tool = "wikipedia-search" -> wikipedia_search(ext)
      [] tool = "github-repo-info" -> github_repo_info(ext)
      [] tool = "movie-ratings" -> movie_ratings(ext)
      [] tool = "local-file-search" -> local_file_search(ext)
      [] tool = "truth_table" -> truth_table(ext)
      [] tool = "define_word" -> define_word(ext)

\* ------------------------------------------------------------- registry
\* What server.tool(name, description, shape, handler) registers: the name, the
\* description and the parameters of the zod shape, those that must be given
\* and those that may be left out (optional or with a default).
Descriptor(name, description, required, optional) ==
    [name |-> name, description |-> description,
     required |-> required, optional |-> optional]

\* The shapes of tools.js with adder's b declared z.number().optional().
RequiredParamsAdderBOptional ==
    <<{"items"}, {"topic"}, {"a"}, {"status"}, {"query"}, {"owner", "repo"},
      {"title"}, {"searchTerm"}, {"expression"}, {"word"}>>

\* The descriptions and shapes of tools.js, in the order of ToolNames.
Descriptions ==
    <<"Prints what can the MCP server do with the available tools, gives description of tools (apart from printing this menu)",
      "Fetches recent news headlines for a given topic using Google News",
      "Add two numbers together",
      "Create and post a tweet on X formally known as Twitter",
      "Search Wikipedia and return the summary of the top result",
      "Fetch information about a public GitHub repository",
      "Get ratings and information for movies or TV shows from various sources",
      "Find files on the local system based on name/extension/content",
      "Generate the truth table of a boolean expression (e.g., A && !B || C)",
      "Get the definition and example usage of a word">>
RequiredParams ==
    <<{"items"}, {"topic"}, {"a", "b"}, {"status"}, {"query"}, {"owner", "repo"},
      {"title"}, {"searchTerm"}, {"expression"}, {"word"}>>
OptionalParams ==
    <<{"title"}, {}, {}, {}, {}, {}, {"year", "plot"}, {"directory", "fileType"},
      {}, {}>>

\* The server.tool calls of registerTools in tools.js, in program order.
toolsJs ==
    [i \in DOMAIN ToolNames |->
        Descriptor(ToolNames[i], Descriptions[i], RequiredParams[i], OptionalParams[i])]
\* The server.tool call of registerTools in tools-basic.js.
toolsBasic == <<Descriptor("adder", "Add two numbers together", {"a", "b"}, {})>>

\* The modules that export registerTools; index.js imports the one of tools.js.
Modules == {"tools.js", "tools-basic.js"}
ModuleTools(module) == IF module = "tools.js" THEN toolsJs ELSE toolsBasic

NoError == "none"
DuplicateToolName == "DuplicateToolName"
NotFound == [error |-> "NotFound"]
Names(reg) == {reg[i].name : i \in DOMAIN reg}

\* Registry.register: fails when the name is present, appends otherwise.
register(reg, d) ==
    IF d.name \in Names(reg)
    THEN [registry |-> reg, error |-> DuplicateToolName]
    ELSE [registry |-> Append(reg, d), error |-> NoError]

\* Registry.resolve: the entry registered under the name, or NotFound.
resolve(reg, name) ==
    IF name \in Names(reg)
    THEN reg[CHOOSE i \in DOMAIN reg : reg[i].name = name]
    ELSE NotFound

\* The input schema a listing shows for a registered shape: an object schema
\* with one property per parameter and the list of those that are required.
InputSchema(d) ==
    [type |-> "object", properties |-> d.required \cup d.optional,
     required |-> d.required]
\* Registry.list: the {name, description, inputSchema} triples, in registration order.
list(reg) ==
    [i \in DOMAIN reg |->
        [name |-> reg[i].name, description |-> reg[i].description,
         inputSchema |-> InputSchema(reg[i])]]

\* The registry after a registerTools that ran to its end on a new server.
RECURSIVE registerAll(_, _)
registerAll(reg, ds) ==
    IF ds = <<>> THEN reg
    ELSE registerAll(register(reg, Head(ds)).registry, Tail(ds))

\* The start of index.js: the server is created (line 12), registerTools runs
\* its server.tool calls one after the other (line 18), app.listen (line 73).
Startup(pc, module, next) == [pc |-> pc, module |-> module, next |-> next]
Created == Startup("created", "none", 1)
Listening(module) == Startup("listening", module, Len(ModuleTools(module)) + 1)
IsListening == startup.pc = "listening"

\* What the caller of tools/call receives: a tool result or a protocol error.
ToolResult(content, isError) == [kind |-> "result", content |-> content, isError |-> isError]
\* The dispatch boundary: a handler's rejection becomes a tool result of one
\* text block holding the failure's message.
CaughtAtBoundary(msg) == ToolResult(<<TextBlock(<<msg>>)>>, TRUE)

NoCall == [tool |-> "none", ext |-> External("ok", "")]
NoResult == [kind |-> "none", content |-> <<>>, isError |-> FALSE]
NoArgs == <<>>

\* No file search is being served.
NoScan ==
    /\ disk = <<>>
    /\ frames = <<>>
    /\ results = <<>>

NoReply == [kind |-> "none"]
\* The client has not been started.
NoClient ==
    /\ chatHistory = <<>>
    /\ cpc = "off"
    /\ question = <<>>
    /\ response = NoReply
    /\ called = <<>>
    /\ asked = 0

\* No tool call has been served yet.
CallInit ==
    /\ tcall = NoCall
    /\ tpc = "idle"
    /\ tresult = NoResult
    /\ targs = NoArgs
    /\ tsession = Undefined
    /\ tfailed = {}
    /\ NoScan
    /\ NoClient

\* index.js has run to its end: the tools of tools.js are registered and the
\* server listens.
ToolInit ==
    /\ CallInit
    /\ registry = registerAll(<<>>, toolsJs)
    /\ startup = Listening("tools.js")

\* A tools/call request reaches the handler of a registered tool.
CallTool(tool, ext) ==
    /\ tpc = "idle"
    /\ tcall' = [tool |-> tool, ext |-> ext]
    /\ tpc' = "running"
    /\ tresult' = NoResult
    /\ UNCHANGED <<sessionVars, registryVars, callVars, scanVars, clientVars>>

\* The handler's promise resolves with its content.
HandlerResolves ==
    /\ tpc = "running"
    /\ Handler(tcall.tool, tcall.ext).kind = "return"
    /\ tresult' = ToolResult(Handler(tcall.tool, tcall.ext).content, FALSE)
    /\ tpc' = "idle"
    /\ UNCHANGED <<tcall, sessionVars, registryVars, callVars, scanVars, clientVars>>

\* The handler's promise rejects.
HandlerRejects ==
    /\ tpc = "running"
    /\ Handler(tcall.tool, tcall.ext).kind = "throw"
    /\ tresult' = CaughtAtBoundary(Handler(tcall.tool, tcall.ext).message)
    /\ tpc' = "idle"
    /\ UNCHANGED <<tcall, sessionVars, registryVars, callVars, scanVars, clientVars>>

\* ------------------------------------------------------------ responses
\* What a caller gets: the request, how it was answered and by which transport.
Response(m, h, b, status, t, newSid) ==
    [method |-> m, sid |-> h, body |-> b, status |-> status, t |-> t,
     newSid |-> newSid]

\* res.status(400).json({jsonrpc: '2.0', error: {code: -32000, message:
\* 'Bad Request: No valid session ID provided'}, id: null})
ErrorEnvelope == "400 {jsonrpc:2.0,error:{code:-32000,message:Bad Request: No valid session ID provided},id:null}"
\* res.status(400).send('Invalid or missing session ID')
InvalidSessionText == "400 Invalid or missing session ID"
\* transport.handleRequest is not a function: the handler's promise rejects.
TypeError == "TypeError: transport.handleRequest is not a function"

Unused == {t \in Transports : tStatus[t] = "unused"}
NewTransport == CHOOSE t \in Unused : \A u \in Unused : t <= u

\* ----------------------------------------------------------------- init
\* const transports = {}: no session, no request yet.
SessionInit ==
    /\ transports = <<>>
    /\ tStatus = [t \in Transports |-> "unused"]
    /\ tSessionId = [t \in Transports |-> Undefined]
    /\ tClosedBy = [t \in Transports |-> Open]
    /\ inflight = EmptyBag
    /\ last = Response(NoBody, Undefined, NoBody, "none", NoTransport, Undefined)

Init ==
    /\ SessionInit
    /\ ToolInit

\* -------------------------------------------------------------- actions
\* app.post('/mcp') with transports[sessionId] found: the request goes to that
\* transport, which answers it (a second initialize is refused by the transport).
PostExisting(h, b) ==
    /\ PostBranch(transports, h, b) = "existing"
    /\ Get(transports, h) \in Transports
    /\ last' = Response("POST", h, b,
                        IF isInitializeRequest(b) THEN "refused" ELSE "handled",
                        Get(transports, h), Undefined)
    /\ UNCHANGED <<transports, tStatus, tSessionId, tClosedBy, inflight, toolVars>>

\* The same branch when transports[sessionId] is a member of Object.prototype:
\* the call of handleRequest on it throws and the handler's promise rejects.
PostThrows(h, b) ==
    /\ PostBranch(transports, h, b) = "existing"
    /\ Get(transports, h) = ObjectMember
    /\ last' = Response("POST", h, b, TypeError, NoTransport, Undefined)
    /\ UNCHANGED <<transports, tStatus, tSessionId, tClosedBy, inflight, toolVars>>

\* new StreamableHTTPServerTransport, transport.onclose = ..., server.connect.
PostHandshake(h, b) ==
    /\ PostBranch(transports, h, b) = "handshake"
    /\ Room
    /\ Unused # {}
    /\ tStatus' = [tStatus EXCEPT ![NewTransport] = "created"]
    /\ inflight' = Suspend(Pending("connecting", "POST", h, b, NewTransport))
    /\ UNCHANGED <<transports, tSessionId, tClosedBy, last, toolVars>>

PostReject(h, b) ==
    /\ PostBranch(transports, h, b) = "reject"
    /\ last' = Response("POST", h, b, ErrorEnvelope, NoTransport, Undefined)
    /\ UNCHANGED <<transports, tStatus, tSessionId, tClosedBy, inflight, toolVars>>

PostMcp(h, b) ==
    \/ PostExisting(h, b)
    \/ PostThrows(h, b)
    \/ PostHandshake(h, b)
    \/ PostReject(h, b)

\* InitializeAccepted with a transport that hands the drawn id to the callback
\* and does not keep it as its own sessionId.
InitializeAcceptedIdNotKept(r) ==
    /\ r.pc = "connecting"
    /\ inflight' = Resume(r)
    /\ \E sid \in Drawn(sessionIdGenerator) :
            /\ tStatus' = [tStatus EXCEPT ![r.t] = "initialized"]
            /\ transports' = onsessioninitialized(transports, sid, r.t)
            /\ last' = Response("POST", r.sid, r.body, "initialized", r.t, sid)
    /\ UNCHANGED <<tSessionId, tClosedBy, toolVars>>

\* server.connect(transport) resolved and the new transport accepts the
\* initialize request: it draws its id and calls onsessioninitialized in the
\* same synchronous run.
InitializeAccepted(r) ==
    /\ r.pc = "connecting"
    /\ inflight' = Resume(r)
    /\ \E sid \in Drawn(sessionIdGenerator) :
            /\ tSessionId' = [tSessionId EXCEPT ![r.t] = sid]
            /\ tStatus' = [tStatus EXCEPT ![r.t] = "initialized"]
            /\ transports' = onsessioninitialized(transports, sid, r.t)
            /\ last' = Response("POST", r.sid, r.body, "initialized", r.t, sid)
    /\ UNCHANGED <<tClosedBy, toolVars>>

\* server.connect(transport) resolved and the new transport refuses the
\* request (an Accept header it does not take): no id is drawn and no callback
\* runs.
InitializeRefused(r) ==
    /\ r.pc = "connecting"
    /\ inflight' = Resume(r)
    /\ tStatus' = [tStatus EXCEPT ![r.t] = "failed"]
    /\ last' = Response("POST", r.sid, r.body, "refused", r.t, Undefined)
    /\ UNCHANGED <<transports, tSessionId, tClosedBy, toolVars>>

\* handleSessionRequest, registered for GET and DELETE.
SessionReject(m, h) ==
    /\ SessionBranch(transports, h) = "reject"
    /\ last' = Response(m, h, NoBody, InvalidSessionText, NoTransport, Undefined)
    /\ UNCHANGED <<transports, tStatus, tSessionId, tClosedBy, inflight, toolVars>>

SessionThrows(m, h) ==
    /\ SessionBranch(transports, h) = "existing"
    /\ Get(transports, h) = ObjectMember
    /\ last' = Response(m, h, NoBody, TypeError, NoTransport, Undefined)
    /\ UNCHANGED <<transports, tStatus, tSessionId, tClosedBy, inflight, toolVars>>

\* A GET of a session goes to its transport, which answers it.
GetExisting(m, h) ==
    /\ m = "GET"
    /\ SessionBranch(transports, h) = "existing"
    /\ Get(transports, h) \in Transports
    /\ last' = Response(m, h, NoBody, "handled", Get(transports, h), Undefined)
    /\ UNCHANGED <<transports, tStatus, tSessionId, tClosedBy, inflight, toolVars>>

\* A DELETE of a session goes to its transport, which will close itself.
DeleteExisting(m, h) ==
    /\ m = "DELETE"
    /\ SessionBranch(transports, h) = "existing"
    /\ Get(transports, h) \in Transports
    /\ Room
    /\ inflight' = Suspend(Pending("closing", m, h, NoBody, Get(transports, h)))
    /\ UNCHANGED <<transports, tStatus, tSessionId, tClosedBy, last, toolVars>>

handleSessionRequest(m, h) ==
    \/ SessionReject(m, h)
    \/ SessionThrows(m, h)
    \/ GetExisting(m, h)
    \/ DeleteExisting(m, h)

\* One invocation of a transport's onclose, by `trigger`.
Closed(t, trigger) ==
    /\ tClosedBy' = [tClosedBy EXCEPT ![t] = IF @ = Open THEN trigger ELSE @]
    /\ transports' = onclose(transports, tSessionId[t])

\* The transport answers the DELETE: transport.close(), which calls onclose.
HandleDelete(r) ==
    /\ r.pc = "closing"
    /\ inflight' = Resume(r)
    /\ Closed(r.t, "delete")
    /\ last' = Response("DELETE", r.sid, NoBody, "closed", r.t, Undefined)
    /\ UNCHANGED <<tStatus, tSessionId, toolVars>>

\* The transport layer closes a transport by itself and calls its onclose.
TransportClosed(t) ==
    /\ tStatus[t] \in {"initialized", "failed"}
    /\ Closed(t, "transport")
    /\ last' = Response("onclose", tSessionId[t], NoBody, "closed", t, Undefined)
    /\ UNCHANGED <<tStatus, tSessionId, inflight, toolVars>>

\* The sessions of the server; no tool call is looked into.
SessionNext ==
    \/ \E h \in Headers, b \in Bodies : PostMcp(h, b)
    \/ \E m \in {"GET", "DELETE"}, h \in Headers : handleSessionRequest(m, h)
    \/ \E r \in BagToSet(inflight) : InitializeAccepted(r)
    \/ \E r \in BagToSet(inflight) : InitializeRefused(r)
    \/ \E r \in BagToSet(inflight) : HandleDelete(r)
    \/ \E t \in Transports : TransportClosed(t)

Next == SessionNext

Spec == Init /\ [][Next]_vars

\* The tool calls served; the session table stays as it is.
ToolNext ==
    \/ \E tool \in Tools : \E ext \in ExternalsOf(tool) : CallTool(tool, ext)
    \/ HandlerResolves
    \/ HandlerRejects

NextTools == ToolNext

SpecTools == Init /\ [][NextTools]_vars

\* -------------------------------------------------------------- startup
\* index.js line 6: the module whose registerTools line 18 will call.
Import(module) ==
    /\ startup = Created
    /\ startup' = Startup("registering", module, 1)
    /\ UNCHANGED <<sessionVars, tcall, tpc, tresult, registry, callVars, scanVars, clientVars>>

\* A server.tool call that puts its tool in the place of the registry.
RegisterToolReplaces ==
    /\ startup.pc = "registering"
    /\ startup.next <= Len(ModuleTools(startup.module))
    /\ registry' = <<ModuleTools(startup.module)[startup.next]>>
    /\ startup' = Startup("registering", startup.module, startup.next + 1)
    /\ UNCHANGED <<sessionVars, tcall, tpc, tresult, callVars, scanVars, clientVars>>

\* One server.tool call of registerTools. A call that fails throws out of
\* registerTools and of the module: the process ends before app.listen.
RegisterTool ==
    /\ startup.pc = "registering"
    /\ startup.next <= Len(ModuleTools(startup.module))
    /\ LET r == register(registry, ModuleTools(startup.module)[startup.next]) IN
          /\ registry' = r.registry
          /\ startup' = IF r.error = NoError
                        THEN Startup("registering", startup.module, startup.next + 1)
                        ELSE Startup("failed", startup.module, startup.next)
    /\ UNCHANGED <<sessionVars, tcall, tpc, tresult, callVars, scanVars, clientVars>>

\* Listen that does not wait for registerTools to return.
ListenBeforeRegistered ==
    /\ startup.pc = "registering"
    /\ startup' = Listening(startup.module)
    /\ UNCHANGED <<sessionVars, tcall, tpc, tresult, registry, callVars, scanVars, clientVars>>

\* app.listen(3001): reached when registerTools has returned.
Listen ==
    /\ startup.pc = "registering"
    /\ startup.next > Len(ModuleTools(startup.module))
    /\ startup' = Listening(startup.module)
    /\ UNCHANGED <<sessionVars, tcall, tpc, tresult, registry, callVars, scanVars, clientVars>>

\* The result of a tools/list query.
ListResult(descriptors) == [kind |-> "list", content |-> descriptors, isError |-> FALSE]

\* app.post('/mcp') with a tools/list body for a session in the table: the
\* session's transport answers with the listing of the registry.
ListTools(h) ==
    /\ PostBranch(transports, h, "tools/list") = "existing"
    /\ Get(transports, h) \in Transports
    /\ last' = Response("POST", h, "tools/list", "handled", Get(transports, h), Undefined)
    /\ tresult' = ListResult(list(registry))
    /\ UNCHANGED <<transports, tStatus, tSessionId, tClosedBy, inflight,
                   tcall, tpc, registryVars, callVars, scanVars, clientVars>>

\* The state at line 12 of index.js: the server exists, nothing is registered.
InitStartup ==
    /\ SessionInit
    /\ CallInit
    /\ registry = <<>>
    /\ startup = Created

\* The requests served once the server listens: handshakes, tool calls and
\* terminations.
Served ==
    \/ \E b \in Bodies : PostMcp(Undefined, b)
    \/ \E h \in UUIDs : PostMcp(h, "tools/call")
    \/ \E h \in UUIDs : handleSessionRequest("DELETE", h)
    \/ \E r \in BagToSet(inflight) : InitializeAccepted(r)
    \/ \E r \in BagToSet(inflight) : HandleDelete(r)

StartupNext ==
    \/ Import("tools.js")
    \/ RegisterTool
    \/ Listen
    \/ IsListening /\ Served
    \/ IsListening /\ \E h \in UUIDs : ListTools(h)

NextStartup == StartupNext

SpecStartup == InitStartup /\ [][NextStartup]_vars

\* register applied to any registry a registerTools can have built and any
\* server.tool call of either module.
Prefixes(ds) == {SubSeq(ds, 1, n) : n \in 0..Len(ds)}
InitRegistry ==
    /\ SessionInit
    /\ CallInit
    /\ registry \in UNION {Prefixes(ModuleTools(m)) : m \in Modules}
    /\ \E m \in Modules : \E n \in DOMAIN ModuleTools(m) :
          startup = Startup("registering", m, n)

NextRegistry == RegisterTool

SpecRegistry == InitRegistry /\ [][NextRegistry]_vars

\* ----------------------------------------------------- tool calls served
\* A tools/call request: the tool's name, the arguments given (the values are
\* left open) and what the handler's external call will do.
Call(name, given, ext) ==
    [name |-> name, args |-> [n \in given |-> "value"], ext |-> ext]

\* The calls a client makes: a handler that rejects (define_word), one that
\* catches the failure of its call (github-repo-info), handlers that succeed,
\* adder without b, and a name no server.tool call registers.
ServedCalls ==
    {Call("define_word", {"word"}, External("rejected", "boom")),
     Call("github-repo-info", {"owner", "repo"}, External("rejected", "fetch failed")),
     Call("adder", {"a", "b"}, External("ok", "")),
     Call("adder", {"a"}, External("ok", "")),
     Call("local-file-search", {"searchTerm"}, External("ok", "")),
     Call("subtract", {"a", "b"}, External("ok", ""))}

\* The schema check: every required parameter is given; parameters the shape
\* does not name are let through.
Validate(d, args) == d.required \subseteq DOMAIN args

\* What the dispatch does with a tools/call: resolve, validate, invoke.
Dispatch(reg, name, args) ==
    IF resolve(reg, name) = NotFound THEN "unknown"
    ELSE IF ~Validate(resolve(reg, name), args) THEN "invalid"
    ELSE "invoke"

\* The failure results of the dispatch, each one text block.
UnknownToolResult(name) ==
    ToolResult(<<TextBlock(<<"Tool ", name, " not found">>)>>, TRUE)
ValidationResult(name, d, args) ==
    ToolResult(<<TextBlock(<<"Invalid arguments for tool ", name, ": ">>
                           \o <<"Required">>)>>, TRUE)

\* The handlers that call the synchronous fs API: fs.statSync and
\* fs.readdirSync of local-file-search return only when the disk has answered.
SyncIO == {"local-file-search"}
\* The handlers that do network or disk I/O at all.
IOTools == Tools \ {"print-menu", "adder", "truth_table"}

\* The thread is free unless a handler is inside a synchronous call.
ThreadFree == tpc # "blocking"
\* A tools/call route that drops the session of a call it did not hand to a
\* handler.
PostToolsCallEndsSession(h, c) ==
    /\ ThreadFree
    /\ tpc = "idle"
    /\ PostBranch(transports, h, "tools/call") = "existing"
    /\ Get(transports, h) \in Transports
    /\ tcall' = [tool |-> c.name, ext |-> c.ext]
    /\ targs' = c.args
    /\ tsession' = h
    /\ LET outcome == Dispatch(registry, c.name, c.args) IN
          /\ tpc' = IF outcome # "invoke" THEN "idle"
                    ELSE IF c.name \in SyncIO THEN "blocking" ELSE "running"
          /\ tresult' = CASE outcome = "unknown" -> UnknownToolResult(c.name)
                          [] outcome = "invalid" ->
                                ValidationResult(c.name, resolve(registry, c.name), c.args)
                          [] OTHER -> NoResult
          /\ transports' = IF outcome = "invoke" THEN transports
                           ELSE onclose(transports, h)
    /\ UNCHANGED <<tStatus, tSessionId, tClosedBy, inflight, last,
                   registryVars, tfailed, scanVars, clientVars>>

\* app.post('/mcp') with a tools/call body for a session in the table: the
\* session's transport takes the request and the dispatch resolves the tool,
\* checks the arguments and starts the handler. Unknown tools and invalid
\* arguments are answered at once, without a handler.
PostToolsCall(h, c) ==
    /\ ThreadFree
    /\ tpc = "idle"
    /\ PostBranch(transports, h, "tools/call") = "existing"
    /\ Get(transports, h) \in Transports
    /\ tcall' = [tool |-> c.name, ext |-> c.ext]
    /\ targs' = c.args
    /\ tsession' = h
    /\ LET outcome == Dispatch(registry, c.name, c.args) IN
          /\ tpc' = IF outcome # "invoke" THEN "idle"
                    ELSE IF c.name \in SyncIO THEN "blocking" ELSE "running"
          /\ tresult' = CASE outcome = "unknown" -> UnknownToolResult(c.name)
                          [] outcome = "invalid" ->
                                ValidationResult(c.name, resolve(registry, c.name), c.args)
                          [] OTHER -> NoResult
    /\ UNCHANGED <<sessionVars, registryVars, tfailed, scanVars, clientVars>>

\* The synchronous call of the handler returns; the handler goes on to its
\* next await.
SyncReturns ==
    /\ tpc = "blocking"
    /\ tpc' = "running"
    /\ UNCHANGED <<sessionVars, tcall, tresult, registryVars, callVars, scanVars, clientVars>>

\* The sessions on which a call has failed, after the call being served ended.
FailedAfter == IF tcall.ext \in Failures THEN tfailed \cup {tsession} ELSE tfailed

\* A handler that deletes the session whose call it could not serve.
CallRejectsEndsSession ==
    /\ ThreadFree
    /\ tpc = "running"
    /\ Handler(tcall.tool, tcall.ext).kind = "throw"
    /\ tresult' = CaughtAtBoundary(Handler(tcall.tool, tcall.ext).message)
    /\ tpc' = "idle"
    /\ tfailed' = FailedAfter
    /\ transports' = onclose(transports, tsession)
    /\ UNCHANGED <<tStatus, tSessionId, tClosedBy, inflight, last,
                   tcall, registryVars, targs, tsession, scanVars, clientVars>>

\* The handler's promise resolves: its content goes back on the request.
CallResolves ==
    /\ ThreadFree
    /\ tpc = "running"
    /\ Handler(tcall.tool, tcall.ext).kind = "return"
    /\ tresult' = ToolResult(Handler(tcall.tool, tcall.ext).content, FALSE)
    /\ tpc' = "idle"
    /\ tfailed' = FailedAfter
    /\ UNCHANGED <<sessionVars, tcall, registryVars, targs, tsession, scanVars, clientVars>>

\* The handler's promise rejects: the dispatch answers with the failure.
CallRejects ==
    /\ ThreadFree
    /\ tpc = "running"
    /\ Handler(tcall.tool, tcall.ext).kind = "throw"
    /\ tresult' = CaughtAtBoundary(Handler(tcall.tool, tcall.ext).message)
    /\ tpc' = "idle"
    /\ tfailed' = FailedAfter
    /\ UNCHANGED <<sessionVars, tcall, registryVars, targs, tsession, scanVars, clientVars>>

\* The server with tool calls on its sessions. Every handler run needs the
\* thread: none starts while a synchronous call holds it.
ServeNext ==
    \/ ThreadFree /\ PostHandshake(Undefined, "initialize")
    \/ ThreadFree /\ \E r \in BagToSet(inflight) : InitializeAccepted(r)
    \/ \E h \in UUIDs, c \in ServedCalls : PostToolsCall(h, c)
    \/ SyncReturns
    \/ CallResolves
    \/ CallRejects
    \/ ThreadFree /\ \E h \in UUIDs : GetExisting("GET", h)
    \/ ThreadFree /\ \E t \in Transports : TransportClosed(t)

NextServe == ServeNext

SpecServe == Init /\ [][NextServe]_vars

\* ---------------------------------------------------------------- adder
Numbers == (0 - MaxAbs)..MaxAbs
DigitChars == <<"0", "1", "2", "3", "4", "5", "6", "7", "8", "9">>

\* `${n}` for an integer n: the decimal digits, "-" before them when n < 0.
RECURSIVE Digits(_)
Digits(n) ==
    IF n < 10 THEN <<DigitChars[n + 1]>>
    ELSE Digits(n \div 10) \o <<DigitChars[(n % 10) + 1]>>
NumberToString(n) == IF n < 0 THEN <<"-">> \o Digits(0 - n) ELSE Digits(n)

\* The adder handler with `${a}${b}` in the place of `${a + b}`.
adderHandlerJoins(a, b) ==
    One(<<"Result:", " The sum of ">> \o NumberToString(a) \o <<" and ">>
        \o NumberToString(b) \o <<" is ">> \o NumberToString(a) \o NumberToString(b)
        \o <<".\n">>)

\* The adder handler on numbers a and b: the text, character by character
\* where it is made of the numbers.
adderHandler(a, b) ==
    One(<<"Result:", " The sum of ">> \o NumberToString(a) \o <<" and ">>
        \o NumberToString(b) \o <<" is ">> \o NumberToString(a + b) \o <<".\n">>)

\* A tools/call of adder with numbers a and b has reached the handler.
InitAdder ==
    /\ SessionInit
    /\ registry = registerAll(<<>>, toolsJs)
    /\ startup = Listening("tools.js")
    /\ tcall = [tool |-> "adder", ext |-> External("ok", "")]
    /\ targs \in [{"a", "b"} -> Numbers]
    /\ tpc = "running"
    /\ tresult = NoResult
    /\ tsession = Undefined
    /\ tfailed = {}
    /\ NoScan
    /\ NoClient

AdderReturns ==
    /\ tpc = "running"
    /\ tcall.tool = "adder"
    /\ tresult' = ToolResult(adderHandler(targs.a, targs.b).content, FALSE)
    /\ tpc' = "idle"
    /\ UNCHANGED <<sessionVars, tcall, registryVars, callVars, scanVars, clientVars>>

NextAdder == AdderReturns

SpecAdder == InitAdder /\ [][NextAdder]_vars

\* ---------------------------------------------------------- truth_table
Alphabet == <<"A", "B", "C", "D", "E">>
Letters == {Alphabet[i] : i \in 1..MaxLetters}
Rank(v) == CHOOSE i \in DOMAIN Alphabet : Alphabet[i] = v

\* Boolean expressions of JavaScript over single-letter variables.
Var(v) == [op |-> "var", v |-> v]
Lit(c) == [op |-> "lit", c |-> c]
Not(x) == [op |-> "!", x |-> x]
And(x, y) == [op |-> "&&", x |-> x, y |-> y]
Or(x, y) == [op |-> "||", x |-> x, y |-> y]
Compound(S) ==
    S \cup {Not(x) : x \in S} \cup {And(x, y) : x, y \in S} \cup {Or(x, y) : x, y \in S}
Atoms == {Var(v) : v \in Letters} \cup {Lit(c) : c \in BOOLEAN}
Expressions == Compound(Compound(Atoms))

\* expr.match(/\b[A-Z]\b/g): the variables of the text, left to right.
RECURSIVE matches(_)
matches(e) ==
    CASE e.op = "var" -> <<e.v>>
      [] e.op = "lit" -> <<>>
      [] e.op = "!" -> matches(e.x)
      [] OTHER -> matches(e.x) \o matches(e.y)

\* [...new Set(m)].sort(): the distinct elements in code-unit order.
RECURSIVE sort(_)
sort(S) ==
    IF S = {} THEN <<>>
    ELSE LET first == CHOOSE v \in S : \A w \in S : Rank(v) <= Rank(w)
         IN <<first>> \o sort(S \ {first})
extractVariables(e) == sort({matches(e)[i] : i \in DOMAIN matches(e)})

RECURSIVE Pow2(_)
Pow2(n) == IF n = 0 THEN 1 ELSE 2 * Pow2(n - 1)

\* generateCombinations with (i >> j) & 1: the first variable is the least
\* significant bit.
generateCombinationsLowFirst(vs) ==
    [k \in 1..Pow2(Len(vs)) |->
        [v \in {vs[j] : j \in DOMAIN vs} |->
            LET j == CHOOSE j \in DOMAIN vs : vs[j] = v
            IN ((k - 1) \div Pow2(j - 1)) % 2 = 1]]

\* generateCombinations: for i = 0 .. (1 << n) - 1 the row that gives the j-th
\* variable (from 0) the bit (i >> (n - j - 1)) & 1.
generateCombinations(vs) ==
    [k \in 1..Pow2(Len(vs)) |->
        [v \in {vs[j] : j \in DOMAIN vs} |->
            LET j == CHOOSE j \in DOMAIN vs : vs[j] = v
            IN ((k - 1) \div Pow2(Len(vs) - j)) % 2 = 1]]

\* evaluate: the variables replaced by their values, the text given to eval.
RECURSIVE evaluate(_, _)
evaluate(e, assignment) ==
    CASE e.op = "var" -> assignment[e.v]
      [] e.op = "lit" -> e.c
      [] e.op = "!" -> ~evaluate(e.x, assignment)
      [] e.op = "&&" -> evaluate(e.x, assignment) /\ evaluate(e.y, assignment)
      [] OTHER -> evaluate(e.x, assignment) \/ evaluate(e.y, assignment)

\* x ? 'T' : 'F'
TF(x) == IF x THEN "T" ELSE "F"

\* The table of the handler: the header's variables and one line per row, the
\* cells of the variables and the result.
truthTable(e) ==
    LET vs == extractVariables(e)
        combinations == generateCombinations(vs)
    IN [header |-> vs,
        body |-> [k \in DOMAIN combinations |->
                     [cells |-> [j \in DOMAIN vs |-> TF(combinations[k][vs[j]])],
                      result |-> TF(evaluate(e, combinations[k]))]]]

\* A tools/call of truth_table with an expression has reached the handler.
InitTruthTable ==
    /\ SessionInit
    /\ registry = registerAll(<<>>, toolsJs)
    /\ startup = Listening("tools.js")
    /\ tcall = [tool |-> "truth_table", ext |-> External("ok", "")]
    /\ targs \in [{"expression"} -> Expressions]
    /\ tpc = "running"
    /\ tresult = NoResult
    /\ tsession = Undefined
    /\ tfailed = {}
    /\ NoScan
    /\ NoClient

TruthTableReturns ==
    /\ tpc = "running"
    /\ tcall.tool = "truth_table"
    /\ tresult' = ToolResult(<<[type |-> "text", text |-> truthTable(targs.expression)]>>, FALSE)
    /\ tpc' = "idle"
    /\ UNCHANGED <<sessionVars, tcall, registryVars, callVars, scanVars, clientVars>>

NextTruthTable == TruthTableReturns

SpecTruthTable == InitTruthTable /\ [][NextTruthTable]_vars

\* ---------------------------------------------------- local-file-search
\* if (results.length >= 20)
MaxResults == 20
\* The directories scanDirectory does not enter.
SkippedNames == {"node_modules", ".git"}

\* A directory entry: a file, with what the tests of searchTerm and fileType
\* on its name, extension and content yield (isMatch), or a directory.
File(name, isMatch) == [kind |-> "file", name |-> name, isMatch |-> isMatch]
Directory(name, entries) == [kind |-> "dir", name |-> name, entries |-> entries]
Files(n) == [i \in 1..n |-> File("match", TRUE)]
Counts == {0, 2, MaxFiles}
\* The trees under the directory searched: a skipped directory, a file that
\* does not match, a files, a directory (with a directory of d files, then c
\* files), then b files.
Disks ==
    {<<Directory("node_modules", Files(1)), File("other", FALSE)>> \o Files(a)
        \o <<Directory("sub", <<Directory("subsub", Files(d))>> \o Files(c))>>
        \o Files(b) : a \in Counts, b \in Counts, c \in Counts, d \in Counts}

\* fs.readdirSync(dir, { withFileTypes: true }), dir given by the positions
\* that lead to it from the directory searched.
RECURSIVE readdirSync(_, _)
readdirSync(tree, dir) ==
    IF dir = <<>> THEN tree ELSE readdirSync(tree[Head(dir)].entries, Tail(dir))

\* A call of scanDirectory(dir): the position of its for loop and where in
\* the loop body it stands.
Frame(dir, i, pc) == [dir |-> dir, i |-> i, pc |-> pc]
Top == frames[Len(frames)]
Listing == readdirSync(disk, Top.dir)
SetTop(f) == [frames EXCEPT ![Len(frames)] = f]
\* The innermost call returns: its caller goes on after its await.
Returned ==
    LET callers == SubSeq(frames, 1, Len(frames) - 1)
    IN IF callers = <<>> THEN callers
       ELSE [callers EXCEPT ![Len(callers)].pc = "check"]
Scanning == tpc = "running" /\ tcall.tool = "local-file-search" /\ frames # <<>>

\* The handler has passed its statSync and calls scanDirectory(directory).
InitScan ==
    /\ SessionInit
    /\ registry = registerAll(<<>>, toolsJs)
    /\ startup = Listening("tools.js")
    /\ tcall = [tool |-> "local-file-search", ext |-> External("ok", "")]
    /\ targs = NoArgs
    /\ tpc = "running"
    /\ tresult = NoResult
    /\ tsession = Undefined
    /\ tfailed = {}
    /\ disk \in Disks
    /\ frames = <<Frame(<<>>, 1, "for")>>
    /\ results = <<>>
    /\ NoClient

\* file.isDirectory(), not node_modules or .git: await scanDirectory(fullPath).
ScanSubdirectory ==
    /\ Scanning
    /\ Top.pc = "for" /\ Top.i <= Len(Listing)
    /\ Listing[Top.i].kind = "dir" /\ Listing[Top.i].name \notin SkippedNames
    /\ frames' = Append(SetTop(Frame(Top.dir, Top.i, "await")),
                        Frame(Top.dir \o <<Top.i>>, 1, "for"))
    /\ UNCHANGED <<sessionVars, tcall, tpc, tresult, registryVars, callVars,
                   disk, results, clientVars>>

\* file.isDirectory(), node_modules or .git: nothing is done with it.
SkipDirectory ==
    /\ Scanning
    /\ Top.pc = "for" /\ Top.i <= Len(Listing)
    /\ Listing[Top.i].kind = "dir" /\ Listing[Top.i].name \in SkippedNames
    /\ frames' = SetTop(Frame(Top.dir, Top.i, "check"))
    /\ UNCHANGED <<sessionVars, tcall, tpc, tresult, registryVars, callVars,
                   disk, results, clientVars>>

\* The else branch: the file is tested and, when it matches, pushed.
ScanFile ==
    /\ Scanning
    /\ Top.pc = "for" /\ Top.i <= Len(Listing)
    /\ Listing[Top.i].kind = "file"
    /\ results' = IF Listing[Top.i].isMatch
                  THEN Append(results, Top.dir \o <<Top.i>>) ELSE results
    /\ frames' = SetTop(Frame(Top.dir, Top.i, "check"))
    /\ UNCHANGED <<sessionVars, tcall, tpc, tresult, registryVars, callVars,
                   disk, clientVars>>

\* LimitCheck placed at the end of the else branch: it is not reached after a
\* directory.
LimitCheckAfterFilesOnly ==
    /\ Scanning
    /\ Top.pc = "check"
    /\ frames' = IF Len(results) >= MaxResults /\ Listing[Top.i].kind = "file"
                 THEN Returned
                 ELSE SetTop(Frame(Top.dir, Top.i + 1, "for"))
    /\ UNCHANGED <<sessionVars, tcall, tpc, tresult, registryVars, callVars,
                   disk, results, clientVars>>

\* if (results.length >= 20) break; at the end of the loop body, after a file
\* and after a directory alike. The break ends the loop, and with it the call.
LimitCheck ==
    /\ Scanning
    /\ Top.pc = "check"
    /\ frames' = IF Len(results) >= MaxResults
                 THEN Returned
                 ELSE SetTop(Frame(Top.dir, Top.i + 1, "for"))
    /\ UNCHANGED <<sessionVars, tcall, tpc, tresult, registryVars, callVars,
                   disk, results, clientVars>>

\* The for loop has run through its listing: the call returns.
LoopEnds ==
    /\ Scanning
    /\ Top.pc = "for" /\ Top.i > Len(Listing)
    /\ frames' = Returned
    /\ UNCHANGED <<sessionVars, tcall, tpc, tresult, registryVars, callVars,
                   disk, results, clientVars>>

\* await scanDirectory(directory) has returned: the handler returns its text.
SearchReturns ==
    /\ tpc = "running" /\ tcall.tool = "local-file-search" /\ frames = <<>>
    /\ tresult' = ToolResult(local_file_search(tcall.ext).content, FALSE)
    /\ tpc' = "idle"
    /\ UNCHANGED <<sessionVars, tcall, registryVars, callVars, scanVars, clientVars>>

NextScan ==
    \/ ScanSubdirectory
    \/ SkipDirectory
    \/ ScanFile
    \/ LimitCheck
    \/ LoopEnds
    \/ SearchReturns

SpecScan == InitScan /\ [][NextScan]_vars

\* --------------------------------------------------------------- client
\* The characters of the lines typed at the prompt, lower and upper case.
LowerCase == <<"e", "x", "i", "t", "s">>
UpperCase == <<"E", "X", "I", "T", "S">>
WhiteSpace == {" ", "\t"}

\* String.prototype.toUpperCase with every character left as it is.
toUpperCaseKeepsCase(str) == str

\* String.prototype.toUpperCase, character by character.
toUpperCase(str) ==
    [k \in DOMAIN str |->
        IF \E l \in DOMAIN LowerCase : LowerCase[l] = str[k]
        THEN UpperCase[CHOOSE l \in DOMAIN LowerCase : LowerCase[l] = str[k]]
        ELSE str[k]]

\* String.prototype.trim: the white space at both ends removed.
RECURSIVE trimStart(_)
trimStart(str) ==
    IF str # <<>> /\ Head(str) \in WhiteSpace THEN trimStart(Tail(str)) ELSE str
RECURSIVE trimEnd(_)
trimEnd(str) ==
    IF str # <<>> /\ str[Len(str)] \in WhiteSpace
    THEN trimEnd(SubSeq(str, 1, Len(str) - 1)) ELSE str
trim(str) == trimEnd(trimStart(str))

\* The lines a user types.
Questions ==
    {<<"E", "X", "I", "T">>, <<"e", "x", "i", "t">>,
     <<" ", "E", "x", "i", "T", "\t">>,
     <<"E", "X", "I", "T", "S">>, <<"e", "x", " ", "i", "t">>, <<>>}

\* An entry of chatHistory.
Entry(role, text) == [role |-> role, parts |-> <<[text |-> text, type |-> "text"]>>]
\* A text that is undefined.
NoText == <<Undefined>>

\* response.candidates[0].content.parts[0]: a text, a function call, or
\* neither.
TextReply(text) == [kind |-> "text", text |-> text]
FunctionCallReply(c) == [kind |-> "functionCall", name |-> c.name, args |-> c.args]
\* The function calls the model makes: a tool that returns two blocks, a tool
\* whose handler rejects, adder, and a tool the server does not know.
ChatCalls ==
    {Call("define_word", {"word"}, External("ok", "")),
     Call("define_word", {"word"}, External("rejected", "boom")),
     Call("adder", {"a", "b"}, External("ok", "")),
     Call("subtract", {"a", "b"}, External("ok", ""))}
Replies ==
    {TextReply(<<"Hello">>), TextReply(NoText)} \cup {FunctionCallReply(c) : c \in ChatCalls}

\* What the server answers to a tools/call.
Answer(c) ==
    CASE Dispatch(registry, c.name, c.args) = "unknown" -> UnknownToolResult(c.name)
      [] Dispatch(registry, c.name, c.args) = "invalid" ->
            ValidationResult(c.name, resolve(registry, c.name), c.args)
      [] Handler(c.name, c.ext).kind = "throw" -> CaughtAtBoundary(Handler(c.name, c.ext).message)
      [] OTHER -> ToolResult(Handler(c.name, c.ext).content, FALSE)

\* Array.prototype.join(' ') on the texts of the parts.
RECURSIVE join(_)
join(texts) ==
    IF texts = <<>> THEN <<>>
    ELSE IF Len(texts) = 1 THEN texts[1]
    ELSE texts[1] \o <<" ">> \o join(Tail(texts))

\* ans.content.map(part => part.text).join(' ')
toolResponse(ans) == join([k \in DOMAIN ans.content |-> ans.content[k].text])

\* The session of the client, opened by client.connect in main.
ClientSession == UUID(1)

\* main has connected the client and listed the tools; chatLoop shows its
\* first prompt.
InitChat ==
    /\ transports = [sid \in {ClientSession} |-> 1]
    /\ tStatus = [t \in Transports |-> IF t = 1 THEN "initialized" ELSE "unused"]
    /\ tSessionId = [t \in Transports |-> IF t = 1 THEN ClientSession ELSE Undefined]
    /\ tClosedBy = [t \in Transports |-> Open]
    /\ inflight = EmptyBag
    /\ last = Response("POST", Undefined, "initialize", "initialized", 1, ClientSession)
    /\ registry = registerAll(<<>>, toolsJs)
    /\ startup = Listening("tools.js")
    /\ tcall = NoCall
    /\ tpc = "idle"
    /\ tresult = NoResult
    /\ targs = NoArgs
    /\ tsession = Undefined
    /\ tfailed = {}
    /\ NoScan
    /\ chatHistory = <<>>
    /\ cpc = "prompt"
    /\ question = <<>>
    /\ response = NoReply
    /\ called = <<>>
    /\ asked = 0

IsExit(q) == toUpperCase(trim(q)) = <<"E", "X", "I", "T">>

\* The line read is EXIT: rl.close(), process.exit(0).
Exit(q) ==
    /\ cpc = "prompt"
    /\ IsExit(q)
    /\ question' = q
    /\ cpc' = "exited"
    /\ UNCHANGED <<sessionVars, tcall, tpc, tresult, registryVars, callVars, scanVars,
                   chatHistory, response, called, asked>>

\* Any other line: it is pushed as a user entry and the model is called with
\* the history.
Ask(q) ==
    /\ cpc = "prompt"
    /\ ~IsExit(q)
    /\ Len(chatHistory) < 2 * MaxTurns
    /\ question' = q
    /\ chatHistory' = Append(chatHistory, Entry("user", q))
    /\ asked' = asked + 1
    /\ called' = <<>>
    /\ response' = NoReply
    /\ cpc' = "generating"
    /\ UNCHANGED <<sessionVars, tcall, tpc, tresult, registryVars, callVars, scanVars>>

\* The model answered without a function call: responseText is pushed.
ReplyText(reply) ==
    /\ cpc = "generating"
    /\ reply.kind = "text"
    /\ response' = reply
    /\ chatHistory' = Append(chatHistory, Entry("model", reply.text))
    /\ cpc' = "prompt"
    /\ UNCHANGED <<sessionVars, tcall, tpc, tresult, registryVars, callVars, scanVars,
                   question, called, asked>>

\* The model answered with a function call: client.callTool({name, arguments}).
ReplyFunctionCall(reply) ==
    /\ cpc = "generating"
    /\ reply.kind = "functionCall"
    /\ response' = reply
    /\ called' = Append(called, [name |-> reply.name, arguments |-> reply.args])
    /\ \E c \in ChatCalls :
          /\ c.name = reply.name /\ c.args = reply.args
          /\ tcall' = [tool |-> c.name, ext |-> c.ext]
    /\ targs' = reply.args
    /\ tsession' = ClientSession
    /\ tpc' = "running"
    /\ tresult' = NoResult
    /\ cpc' = "calling"
    /\ UNCHANGED <<sessionVars, registryVars, tfailed, scanVars,
                   chatHistory, question, asked>>

\* generateContent rejects, or its response has no candidate: chatLoop and
\* main reject and the process ends.
GenerateContentRejects ==
    /\ cpc = "generating"
    /\ cpc' = "crashed"
    /\ UNCHANGED <<sessionVars, tcall, tpc, tresult, registryVars, callVars, scanVars,
                   chatHistory, question, response, called, asked>>

\* callTool resolving with the first block's text only: ans.content[0].text.
CallToolResolvesFirstBlock ==
    /\ cpc = "calling"
    /\ tresult' = Answer([name |-> tcall.tool, args |-> targs, ext |-> tcall.ext])
    /\ tpc' = "idle"
    /\ chatHistory' = Append(chatHistory, Entry("model", tresult'.content[1].text))
    /\ cpc' = "prompt"
    /\ UNCHANGED <<sessionVars, tcall, registryVars, callVars, scanVars,
                   question, response, called, asked>>

\* callTool resolves with the server's answer: the joined texts are pushed as
\* a model entry and the loop continues.
CallToolResolves ==
    /\ cpc = "calling"
    /\ tresult' = Answer([name |-> tcall.tool, args |-> targs, ext |-> tcall.ext])
    /\ tpc' = "idle"
    /\ chatHistory' = Append(chatHistory, Entry("model", toolResponse(tresult')))
    /\ cpc' = "prompt"
    /\ UNCHANGED <<sessionVars, tcall, registryVars, callVars, scanVars,
                   question, response, called, asked>>

\* callTool rejects (the request failed): chatLoop and main reject.
CallToolRejects ==
    /\ cpc = "calling"
    /\ tpc' = "idle"
    /\ cpc' = "crashed"
    /\ UNCHANGED <<sessionVars, tcall, tresult, registryVars, callVars, scanVars,
                   chatHistory, question, response, called, asked>>

chatLoop ==
    \/ \E q \in Questions : Exit(q)
    \/ \E q \in Questions : Ask(q)
    \/ \E reply \in Replies : ReplyText(reply)
    \/ \E reply \in Replies : ReplyFunctionCall(reply)
    \/ GenerateContentRejects
    \/ CallToolResolves
    \/ CallToolRejects

NextChat == chatLoop

SpecChat == InitChat /\ [][NextChat]_vars

\* ------------------------------------------------------------ properties
\* The transports on which DELETE's close() runs in this step.
HandleDeleteOn(t) == \E r \in BagToSet(inflight) : r.t = t /\ HandleDelete(r)
\* A handshake request: a POST with no mcp-session-id header and an initialize body.
IsHandshake(h, b) == ~Truthy(h) /\ isInitializeRequest(b)
\* The server's state apart from the response: nothing of it changes.
NoStateChange == UNCHANGED <<transports, tStatus, tSessionId, tClosedBy, inflight>>
Sessions == {t \in Transports : Truthy(tSessionId[t])}
\* Every handler run for a request carrying h either answers it in its step or
\* suspends it at an await: only such steps can be a handling of h.
Handled(h) == last'.sid = h \/ inflight' # inflight

\* C1: whenever a handshake succeeds (a transport is given its session id), the
\* id returned is the key of no session then in the table, and right after the
\* step a POST, GET or DELETE carrying it is routed to that transport.
C1_HandshakeIdFreshAndAccepted ==
    [][\A t \in Transports :
        (~Truthy(tSessionId[t]) /\ Truthy(tSessionId'[t])) =>
            /\ last'.status = "initialized"
            /\ last'.newSid = tSessionId'[t]
            /\ tSessionId'[t] \notin DOMAIN transports
            /\ \A b \in Bodies : PostBranch(transports', tSessionId'[t], b) = "existing"
            /\ SessionBranch(transports', tSessionId'[t]) = "existing"
            /\ Get(transports', tSessionId'[t]) = t]_vars

\* C1 witness: a handshake has just succeeded while another session is in the table.
C1_Witness ==
    /\ last.status = "initialized"
    /\ last.newSid \in DOMAIN transports
    /\ Cardinality(DOMAIN transports) = 2

\* C2 (as claimed): every POST that is no handshake, GET or DELETE whose session
\* id is not in the table is answered with the JSON-RPC error envelope and
\* leaves the table unchanged.
C2_UnknownIdGetsEnvelope ==
    [][/\ \A h \in Headers, b \in Bodies :
            (h \notin DOMAIN transports /\ ~IsHandshake(h, b) /\ PostMcp(h, b)) =>
                (last'.status = ErrorEnvelope /\ transports' = transports)
       /\ \A m \in {"GET", "DELETE"}, h \in Headers :
            (h \notin DOMAIN transports /\ handleSessionRequest(m, h)) =>
                (last'.status = ErrorEnvelope /\ transports' = transports)]_vars

\* C3: once a session's transport has closed, its id is not in the table, every
\* request carrying the id is rejected (POST with the envelope, GET and DELETE
\* with the 400 text), and such a rejection, a second DELETE included, changes
\* nothing and does not throw.
C3_TerminatedIdRejected ==
    [][\A t \in Transports :
        (Truthy(tSessionId'[t]) /\ tClosedBy'[t] # Open) =>
            /\ tSessionId'[t] \notin DOMAIN transports'
            /\ \A b \in Bodies : PostBranch(transports', tSessionId'[t], b) = "reject"
            /\ SessionBranch(transports', tSessionId'[t]) = "reject"
            /\ (Truthy(tSessionId[t]) /\ tClosedBy[t] # Open /\ Handled(tSessionId[t])) =>
                /\ \A m \in {"GET", "DELETE"} : handleSessionRequest(m, tSessionId[t]) =>
                        (last'.status = InvalidSessionText /\ NoStateChange)
                /\ \A b \in Bodies : PostMcp(tSessionId[t], b) =>
                        (last'.status = ErrorEnvelope /\ NoStateChange)]_vars

\* C3 witness: a DELETE for a session that an earlier DELETE terminated has
\* been answered with the rejection.
C3_Witness ==
    /\ last.method = "DELETE"
    /\ last.status = InvalidSessionText
    /\ \E t \in Transports : tSessionId[t] = last.sid /\ tClosedBy[t] = "delete"

\* C4: of a DELETE's close() and a closure notification for the same transport,
\* whichever runs first removes exactly that session's entry and whichever runs
\* later changes nothing; neither touches another entry and neither throws.
C4_RemovedOnceByFirstTrigger ==
    [][\A t \in Transports :
        (HandleDeleteOn(t) \/ TransportClosed(t)) =>
            /\ last'.status = "closed"
            /\ tClosedBy'[t] # Open
            /\ \A k \in DOMAIN transports' : k \in DOMAIN transports /\ transports'[k] = transports[k]
            /\ IF tClosedBy[t] = Open /\ Truthy(tSessionId[t])
               THEN /\ tSessionId[t] \in DOMAIN transports
                    /\ DOMAIN transports' = DOMAIN transports \ {tSessionId[t]}
               ELSE transports' = transports]_vars

\* C4 witness: a DELETE's close() has run on a transport that a closure
\* notification had already closed, while another session is in the table.
C4_Witness ==
    /\ last.method = "DELETE"
    /\ last.status = "closed"
    /\ tClosedBy[last.t] = "transport"
    /\ Cardinality(DOMAIN transports) = 1

\* C5: a transport that has a session id is in the table under that id exactly
\* when it is not closed, and every entry of the table is such a transport.
C5_InTableIffOpen ==
    /\ \A t \in Sessions :
          (tSessionId[t] \in DOMAIN transports /\ transports[tSessionId[t]] = t)
              <=> tClosedBy[t] = Open
    /\ \A k \in DOMAIN transports :
          transports[k] \in Sessions /\ tSessionId[transports[k]] = k

\* C5 witness: one session open and in the table, another closed and out of it.
C5_Witness ==
    \E t, u \in Sessions :
        /\ tClosedBy[t] = Open /\ tSessionId[t] \in DOMAIN transports
        /\ tClosedBy[u] # Open /\ tSessionId[u] \notin DOMAIN transports

\* C6: a key enters the table only in a step that completes a handshake, a POST
\* with no session id and an initialize body, and the key is the id returned.
C6_OnlyHandshakeAdds ==
    [][\A k \in DOMAIN transports' \ DOMAIN transports :
        /\ last' = Response("POST", Undefined, "initialize", "initialized",
                            transports'[k], k)
        /\ \E r \in BagToSet(inflight) : InitializeAccepted(r)]_vars

\* C6 witness: the first entry of the table, just added by a handshake.
C6_Witness ==
    /\ last.status = "initialized"
    /\ IsHandshake(last.sid, last.body)
    /\ DOMAIN transports = {last.newSid}

\* C7: a key leaves the table only in a step in which the onclose of the
\* transport stored under it runs, called by a DELETE's close() or by a
\* closure notification.
C7_OnlyOncloseRemoves ==
    [][\A k \in DOMAIN transports \ DOMAIN transports' :
        /\ tSessionId[transports[k]] = k
        /\ HandleDeleteOn(transports[k]) \/ TransportClosed(transports[k])
        /\ last'.status = "closed"
        /\ last'.t = transports[k]]_vars

\* C7 witness: one session removed by a DELETE and another by a closure notification.
C7_Witness ==
    \E t, u \in Sessions :
        /\ tClosedBy[t] = "delete" /\ tSessionId[t] \notin DOMAIN transports
        /\ tClosedBy[u] = "transport" /\ tSessionId[u] \notin DOMAIN transports

\* C8: a POST (whatever its body), GET or DELETE whose session id is in the
\* table goes to the transport stored under that id, and the step creates no
\* transport and no table entry.
C8_FoundIdForwarded ==
    [][\A h \in DOMAIN transports :
        /\ \A b \in Bodies : PostMcp(h, b) =>
              /\ last' = Response("POST", h, b, last'.status, transports[h], Undefined)
              /\ last'.status \in {"handled", "refused"}
              /\ NoStateChange
        /\ handleSessionRequest("GET", h) =>
              /\ last' = Response("GET", h, NoBody, "handled", transports[h], Undefined)
              /\ NoStateChange
        /\ handleSessionRequest("DELETE", h) =>
              /\ inflight' = Suspend(Pending("closing", "DELETE", h, NoBody, transports[h]))
              /\ UNCHANGED <<transports, tStatus, tSessionId, tClosedBy>>]_vars

\* C8 witness: an initialize body carrying the id of a session in the table
\* has been given to that session's transport.
C8_Witness ==
    /\ last.method = "POST"
    /\ isInitializeRequest(last.body)
    /\ last.sid \in DOMAIN transports
    /\ last.t = transports[last.sid]

\* C9 (as claimed): a POST with a session id that is not in the table, whatever
\* its body, and a POST with no session id and a body that is no initialize
\* request are rejected with the envelope, and nothing of the state changes.
C9_UnknownPostRejected ==
    [][\A h \in Headers, b \in Bodies :
        (/\ PostMcp(h, b)
         /\ \/ Truthy(h) /\ h \notin DOMAIN transports
            \/ ~Truthy(h) /\ ~isInitializeRequest(b)) =>
            (last'.status = ErrorEnvelope /\ NoStateChange)]_vars

\* A tool call whose handler failed: its external call threw or was rejected.
Failed == tpc = "idle" /\ tcall.ext \in Failures
\* The handlers that put the failure's message into their text, and the
\* failures they do it for.
CarriesMessage ==
    \/ tcall.tool \in {"define_word", "twitter-X-post", "truth_table"}
    \/ tcall.tool = "local-file-search" /\ tcall.ext.kind = "late"

Matches(shown, d) ==
    /\ shown.name = d.name
    /\ shown.description = d.description
    /\ shown.inputSchema.type = "object"
    /\ shown.inputSchema.required = d.required
    /\ shown.inputSchema.properties = d.required \cup d.optional

\* C14: every tools/list answer, after registerTools registered its N tools of
\* distinct names, has exactly N descriptors, the i-th with the name,
\* description and input schema of the i-th registration, and equals the
\* answer of the list query before it.
C14_ListMatchesRegistrations ==
    [][\A h \in UUIDs : ListTools(h) =>
          LET ds == ModuleTools(startup.module) IN
          /\ Cardinality({ds[i].name : i \in DOMAIN ds}) = Len(ds)
          /\ Len(tresult'.content) = Len(ds)
          /\ \A i \in DOMAIN ds : Matches(tresult'.content[i], ds[i])
          /\ tresult.kind = "list" => tresult'.content = tresult.content]_vars

\* C14 witness: a listing of the ten tools of tools.js, adder third.
C14_Witness ==
    /\ tresult.kind = "list"
    /\ Len(tresult.content) = Len(ToolNames)
    /\ tresult.content[3].name = "adder"
    /\ tresult.content[3].inputSchema.required = {"a", "b"}
    /\ last.body = "tools/list"

\* Nothing has been served: no request answered, suspended or listed.
NothingServed ==
    /\ last.status = "none"
    /\ inflight = EmptyBag
    /\ DOMAIN transports = {}
    /\ tresult = NoResult

\* C17: the registry changes only while nothing has been served and the
\* server does not listen yet; once anything is served the server listens and
\* the registry is the complete one, and no step changes it from then on.
C17_RegistryFixedBeforeServing ==
    [][/\ registry' # registry => (~IsListening /\ NothingServed /\ NothingServed')
       /\ IsListening => registryVars' = registryVars
       /\ ~NothingServed' =>
             /\ IsListening'
             /\ registry' = registerAll(<<>>, ModuleTools(startup'.module))
             /\ Len(registry') = Len(ModuleTools(startup'.module))]_vars

\* C17 witness: the server has opened a session, listed the tools and
\* terminated the session, with the ten tools registered.
C17_Witness ==
    /\ IsListening
    /\ tresult.kind = "list"
    /\ \E t \in Transports : tClosedBy[t] = "delete"
    /\ Len(registry) = Len(ToolNames)

\* C18: a server.tool call for a name that is in the registry fails with the
\* duplicate-name error and leaves the registry as it is, any other call
\* appends its descriptor; the names one module registers are pairwise
\* distinct, so a registerTools that runs alone on a new server never fails.
C18_DuplicateNameRefused ==
    [][RegisterTool =>
          LET ds == ModuleTools(startup.module)
              d == ds[startup.next] IN
          /\ IF d.name \in Names(registry)
             THEN registry' = registry /\ startup'.pc = "failed"
             ELSE registry' = Append(registry, d) /\ startup'.pc = "registering"
          /\ \A m \in Modules : \A i, j \in DOMAIN ModuleTools(m) :
                i # j => ModuleTools(m)[i].name # ModuleTools(m)[j].name
          /\ registry = SubSeq(ds, 1, startup.next - 1) => startup'.pc # "failed"]_vars

\* C18 witness: registerTools of tools-basic.js ran on a server that holds the
\* ten tools of tools.js, adder among them, and failed.
C18_Witness ==
    /\ startup = Startup("failed", "tools-basic.js", 1)
    /\ registry = toolsJs
    /\ "adder" \in Names(registry)

CallEnds == tpc = "running" /\ tpc' = "idle"

\* C11: the step in which a failed tool call ends changes no session: the
\* table, the transports and their state stay as they are, and if the call's
\* session is in the table a tools/call on it is dispatched again; a call on a
\* session that had a failed call, whose handler does not fail, ends with the
\* handler's own content and no error mark.
C11_FailureKeepsSession ==
    [][/\ (CallEnds /\ tcall.ext \in Failures) =>
             /\ tresult'.kind = "result"
             /\ tsession \in tfailed'
             /\ UNCHANGED <<transports, tStatus, tSessionId, tClosedBy>>
             /\ tsession \in DOMAIN transports =>
                   /\ PostBranch(transports', tsession, "tools/call") = "existing"
                   /\ Get(transports', tsession) = Get(transports, tsession)
       /\ (CallEnds /\ tsession \in tfailed /\ tcall.ext.kind = "ok") =>
             tresult' = ToolResult(Handler(tcall.tool, External("ok", "")).content, FALSE)]_vars

\* C11 witness: on a session on which a call had failed, a call of adder has
\* returned its sum text, and the session is in the table.
C11_Witness ==
    /\ tpc = "idle"
    /\ tsession \in tfailed
    /\ tsession \in DOMAIN transports
    /\ tcall.tool = "adder"
    /\ DOMAIN targs = {"a", "b"}
    /\ tresult = ToolResult(adder(External("ok", "")).content, FALSE)

\* C12: a tools/call of adder that lacks a or b is answered in the step of
\* its dispatch with a tool result of one text block marked as an error; no
\* handler is started and no session changes.
C12_MissingArgumentRefused ==
    [][\A h \in UUIDs, c \in ServedCalls :
          (PostToolsCall(h, c) /\ c.name = "adder"
              /\ ~({"a", "b"} \subseteq DOMAIN c.args)) =>
             /\ tresult'.kind = "result"
             /\ tresult'.isError
             /\ Len(tresult'.content) = 1
             /\ tresult'.content[1].type = "text"
             /\ tpc' = "idle"
             /\ UNCHANGED <<transports, tStatus, tSessionId, tClosedBy>>]_vars

\* C12 witness: adder called with a alone has been answered with the
\* validation failure, on a session that is in the table.
C12_Witness ==
    /\ tpc = "idle"
    /\ tcall.tool = "adder"
    /\ DOMAIN targs = {"a"}
    /\ tresult.kind = "result"
    /\ tresult.isError
    /\ tsession \in DOMAIN transports

\* C13: a tools/call of a name that is not in the registry is answered with a
\* tool result of one text block that holds the name; no handler is started,
\* the session stays in the table with its transport, and a POST, GET or
\* DELETE carrying its id is still routed to it.
C13_UnknownToolNamed ==
    [][\A h \in UUIDs, c \in ServedCalls :
          (PostToolsCall(h, c) /\ c.name \notin Names(registry)) =>
             /\ tresult'.kind = "result"
             /\ Len(tresult'.content) = 1
             /\ tresult'.content[1].type = "text"
             /\ Contains(tresult'.content[1].text, c.name)
             /\ tpc' = "idle"
             /\ UNCHANGED <<transports, tStatus, tSessionId, tClosedBy>>
             /\ \A b \in Bodies : PostBranch(transports', h, b) = "existing"
             /\ SessionBranch(transports', h) = "existing"]_vars

\* C13 witness: a call of 'subtract' has been answered with the failure that
\* names it, and the session is in the table.
C13_Witness ==
    /\ tpc = "idle"
    /\ tcall.tool = "subtract"
    /\ tresult = UnknownToolResult("subtract")
    /\ tsession \in DOMAIN transports

\* C16 (as claimed): while a tool call that does network or disk I/O is
\* pending, a request of any other session in the table can be dispatched and
\* answered.
C16_PendingCallNeverBlocks ==
    (tpc # "idle" /\ tcall.tool \in IOTools) =>
        \A h \in DOMAIN transports \ {tsession} :
            ENABLED (ThreadFree /\ GetExisting("GET", h))

\* A canonical decimal numeral and the integer it denotes.
IsDigit(c) == \E d \in DOMAIN DigitChars : DigitChars[d] = c
DigitValue(c) == (CHOOSE d \in DOMAIN DigitChars : DigitChars[d] = c) - 1
RECURSIVE NaturalValue(_)
NaturalValue(w) ==
    IF w = <<>> THEN 0
    ELSE 10 * NaturalValue(SubSeq(w, 1, Len(w) - 1)) + DigitValue(w[Len(w)])
IsNatural(w) ==
    /\ w # <<>>
    /\ \A i \in DOMAIN w : IsDigit(w[i])
    /\ Len(w) > 1 => w[1] # "0"
Denotes(w, n) ==
    IF n < 0
    THEN Len(w) > 1 /\ w[1] = "-" /\ IsNatural(Tail(w)) /\ NaturalValue(Tail(w)) = 0 - n
    ELSE IsNatural(w) /\ NaturalValue(w) = n
\* The text holds, as consecutive characters, the decimal numeral of n.
HoldsNumeral(text, n) ==
    \E i \in DOMAIN text : \E j \in i..Len(text) : Denotes(SubSeq(text, i, j), n)

\* C19: for all integers a and b of the range, the adder handler returns one
\* text block whose text holds the decimal numeral of a + b.
C19_AdderTextHoldsSum ==
    (tpc = "idle" /\ tcall.tool = "adder") =>
        /\ tresult.kind = "result"
        /\ Len(tresult.content) = 1
        /\ tresult.content[1].type = "text"
        /\ HoldsNumeral(tresult.content[1].text, targs.a + targs.b)

\* C19 witness: adder with a = 2 and b = 3 has returned a text that holds "5".
C19_Witness ==
    /\ tpc = "idle"
    /\ tcall.tool = "adder"
    /\ targs.a = 2 /\ targs.b = 3
    /\ \E i \in DOMAIN tresult.content[1].text : tresult.content[1].text[i] = "5"

\* The variables that occur in an expression.
RECURSIVE VarsOf(_)
VarsOf(e) ==
    CASE e.op = "var" -> {e.v}
      [] e.op = "lit" -> {}
      [] e.op = "!" -> VarsOf(e.x)
      [] OTHER -> VarsOf(e.x) \cup VarsOf(e.y)
\* The number a line's cells spell in binary, T for 1, the first cell first.
RECURSIVE BinaryValue(_)
BinaryValue(cells) ==
    IF cells = <<>> THEN 0
    ELSE 2 * BinaryValue(SubSeq(cells, 1, Len(cells) - 1))
         + (IF cells[Len(cells)] = "T" THEN 1 ELSE 0)

\* C20: for an expression with n distinct variables the table has the
\* variables in alphabetical order as its header and exactly 2^n lines; the
\* k-th line spells k - 1 in binary with the first variable as the highest
\* bit, so that every assignment has one line and none has two, and its
\* Result is the value of the expression under the line's assignment.
C20_TruthTableRows ==
    (tpc = "idle" /\ tcall.tool = "truth_table") =>
        LET e == targs.expression
            n == Cardinality(VarsOf(e))
            table == tresult.content[1].text
        IN /\ Len(tresult.content) = 1
           /\ Len(table.header) = n
           /\ {table.header[j] : j \in 1..n} = VarsOf(e)
           /\ \A i, j \in 1..n : i < j => Rank(table.header[i]) < Rank(table.header[j])
           /\ Len(table.body) = Pow2(n)
           /\ \A k \in DOMAIN table.body :
                 /\ Len(table.body[k].cells) = n
                 /\ BinaryValue(table.body[k].cells) = k - 1
                 /\ table.body[k].result =
                       TF(evaluate(e, [v \in VarsOf(e) |->
                             table.body[k].cells[CHOOSE j \in 1..n : table.header[j] = v] = "T"]))

\* C20 witness: the table of A && !B: four lines, T only for A true, B false.
C20_Witness ==
    /\ tpc = "idle"
    /\ tcall.tool = "truth_table"
    /\ targs.expression = And(Var("A"), Not(Var("B")))
    /\ Len(tresult.content[1].text.body) = 4
    /\ tresult.content[1].text.body[3] = [cells |-> <<"T", "F">>, result |-> "T"]
    /\ \A k \in {1, 2, 4} : tresult.content[1].text.body[k].result = "F"

\* C24: whatever its external call does, a running handler of tools.js
\* settles by returning a content of text blocks; none lets the failure
\* escape as a rejection.
C24_HandlersNeverReject ==
    tpc = "running" =>
        LET settled == Handler(tcall.tool, tcall.ext)
        IN /\ settled.kind = "return"
           /\ settled.content # <<>>
           /\ \A i \in DOMAIN settled.content : settled.content[i].type = "text"

\* The transport's onclose runs for the first time in this step.
Closes(t) == tClosedBy[t] = Open /\ tClosedBy'[t] # Open

\* C23: in every reachable state each key sid of the session table maps to
\* the transport whose sessionId is sid, and no transport is stored under two
\* keys; a step in which a transport without a session id closes leaves the
\* table as it was.
C23_TableKeyedBySessionId ==
    /\ [](/\ \A sid \in DOMAIN transports :
                /\ transports[sid] \in Transports
                /\ tSessionId[transports[sid]] = sid
          /\ \A j, k \in DOMAIN transports : transports[j] = transports[k] => j = k)
    /\ [][\A t \in Transports :
            (Closes(t) /\ tSessionId[t] = Undefined) => transports' = transports]_vars

\* C23 witness: a transport that was never given a session id has closed
\* while the session of another transport is in the table.
C23_Witness ==
    \E t \in Transports :
        /\ tClosedBy[t] # Open
        /\ tSessionId[t] = Undefined
        /\ \E sid \in DOMAIN transports : transports[sid] # t /\ tSessionId[transports[sid]] = sid

\* The call of scanDirectory that has just returned to the innermost call
\* left entries of that call's listing unread.
BackFromSubdirectory ==
    /\ Scanning
    /\ Top.pc = "check"
    /\ Listing[Top.i].kind = "dir" /\ Listing[Top.i].name \notin SkippedNames
    /\ Top.i < Len(Listing)

\* C21 as stated: the limit ends only the loop of the call that reached it;
\* a call that gets control back from a recursive call goes on with its next
\* entry, whatever the number of results.
C21_LimitEndsInnermostLoopOnly ==
    [][BackFromSubdirectory => frames' = SetTop(Frame(Top.dir, Top.i + 1, "for"))]_vars

\* C21 amended: the check runs at the end of every pass of every loop, after
\* a recursive call too, on the one results array all calls share; a call that
\* gets control back with the limit reached ends its loop as well, and the
\* scan never holds more than MaxResults results.
C21_LimitEndsEveryLoop ==
    /\ [](Len(results) <= MaxResults)
    /\ [][(BackFromSubdirectory /\ Len(results) >= MaxResults) =>
             Len(frames') < Len(frames)]_vars

\* C21 witness: a finished scan of a tree with more than MaxResults matching
\* files: the limit was reached inside the nested directories, and the
\* matching file at the end of the directory searched is not in the results.
C21_Witness ==
    /\ tpc = "idle" /\ tcall.tool = "local-file-search"
    /\ Len(results) = MaxResults
    /\ \E k \in DOMAIN results : Len(results[k]) = 3
    /\ disk[Len(disk)].kind = "file" /\ disk[Len(disk)].isMatch
    /\ \A k \in DOMAIN results : results[k] # <<Len(disk)>>

\* h' is h with one entry of the role pushed; the entry has one part.
Pushed(role) ==
    /\ Len(chatHistory') = Len(chatHistory) + 1
    /\ SubSeq(chatHistory', 1, Len(chatHistory)) = chatHistory
    /\ chatHistory'[Len(chatHistory')].role = role
    /\ Len(chatHistory'[Len(chatHistory')].parts) = 1
\* The text is the texts of the blocks, first to last, one space between two.
JoinedInOrder(text, content) ==
    LET n == Len(content)
        Offset[k \in 1..(n + 1)] ==
            IF k = 1 THEN 0 ELSE Offset[k - 1] + Len(content[k - 1].text) + 1
    IN /\ Len(text) = IF n = 0 THEN 0 ELSE Offset[n + 1] - 1
       /\ \A k \in 1..n :
             SubSeq(text, Offset[k] + 1, Offset[k] + Len(content[k].text)) = content[k].text
       /\ \A k \in 2..n : text[Offset[k]] = " "

\* C22: when the model's reply to a turn is a function call, the client sends
\* one callTool on its session with the reply's name and arguments; until the
\* next prompt it sends no other and does not call the model again; and what
\* it pushes before the next prompt is one model entry whose text is the
\* texts of the returned blocks joined in their order.
C22_FunctionCallRunsToolOnce ==
    [][/\ (cpc = "generating" /\ response'.kind = "functionCall") =>
            /\ called' = <<[name |-> response'.name, arguments |-> response'.args]>>
            /\ tcall'.tool = response'.name
            /\ targs' = response'.args
            /\ tsession' = ClientSession
            /\ asked' = asked
            /\ chatHistory' = chatHistory
       /\ cpc = "calling" =>
            /\ called' = called
            /\ asked' = asked
            /\ IF cpc' = "prompt"
               THEN /\ Pushed("model")
                    /\ JoinedInOrder(chatHistory'[Len(chatHistory')].parts[1].text,
                                     tresult'.content)
               ELSE chatHistory' = chatHistory]_vars

\* C22 witness: the client is back at its prompt after a function call whose
\* result had two blocks; it sent one callTool and pushed the two texts with
\* a space between them.
C22_Witness ==
    /\ cpc = "prompt"
    /\ response.kind = "functionCall"
    /\ Len(called) = 1 /\ called[1].name = response.name
    /\ Len(tresult.content) = 2
    /\ chatHistory[Len(chatHistory)] =
          Entry("model", tresult.content[1].text \o <<" ">> \o tresult.content[2].text)

\* User and model entries in turn, a user entry first, as many of one as of
\* the other.
Alternates(h) ==
    /\ Len(h) % 2 = 0
    /\ \A k \in DOMAIN h : h[k].role = IF k % 2 = 1 THEN "user" ELSE "model"
\* The line is EXIT in some letter case, with white space around it or none.
ExitInput(q) ==
    \E i \in 1..(Len(q) - 3) :
        /\ \A k \in 1..(i - 1) : q[k] \in WhiteSpace
        /\ \A k \in (i + 4)..Len(q) : q[k] \in WhiteSpace
        /\ \A m \in 1..4 : q[i + m - 1] \in {<<"E", "X", "I", "T">>[m], <<"e", "x", "i", "t">>[m]}

\* C25: at every prompt the history is user and model entries in turn,
\* starting with a user entry; a line that is not EXIT pushes one user entry
\* and calls the model, the step back to the prompt pushes one model entry,
\* and an EXIT line ends the loop with the history as it was and the model
\* not called.
C25_HistoryAlternates ==
    /\ [](cpc = "prompt" => Alternates(chatHistory))
    /\ [][(cpc = "prompt" /\ cpc' # "prompt") =>
             IF ExitInput(question')
             THEN cpc' = "exited" /\ chatHistory' = chatHistory /\ asked' = asked
             ELSE /\ cpc' = "generating"
                  /\ chatHistory' = Append(chatHistory, Entry("user", question'))
                  /\ asked' = asked + 1]_vars
    /\ [][(cpc # "prompt" /\ cpc' = "prompt") => Pushed("model")]_vars

\* C25 witness: after a turn answered by a function call the user typed EXIT
\* in mixed case with white space around it, and the loop has ended.
C25_Witness ==
    /\ cpc = "exited"
    /\ question = <<" ", "E", "x", "i", "T", "\t">>
    /\ Len(chatHistory) = 2
    /\ Alternates(chatHistory)
    /\ response.kind = "functionCall"
    /\ asked = 1

====
